---- MODULE Spec2Model ----
(***************************************************************************)
(* Mailing service: the mailing table, its recipients, the delivery log    *)
(* (MailingLog), the computed status of a mailing and the views that       *)
(* create, update, toggle, delete and send mailings; the MailingSettings   *)
(* row of a mailing, the message templates, the Django cache in front of   *)
(* the statistics and the recent log, and send requests running            *)
(* concurrently.                                                           *)
(*                                                                         *)
(* Spec follows the database tables through the mailing views. The cache   *)
(* is read for display only and never feeds back into a table, so Spec     *)
(* leaves it aside; SpecCache follows the tables and the cache together.   *)
(* SpecTemplates adds the message views, SpecRetry the admin's edits of    *)
(* MailingSettings, SpecConc two send requests interleaved statement by    *)
(* statement, SpecStats the statistics of a delivery log of any content.   *)
(*                                                                         *)
(* A view whose checks refuse the request changes nothing in the tables:   *)
(* its guards are the conditions under which the view writes. What a send  *)
(* reports and which send_mail calls it makes is SendResult.               *)
(*                                                                         *)
(* Status strings stand for the ones of the source:                        *)
(*   "Disabled" = 'Отключена', "Created" = 'Создана',                      *)
(*   "Completed" = 'Завершена', "Running" = 'Запущена'.                    *)
(***************************************************************************)
EXTENDS Integers, Sequences, FiniteSets, TLC

\* ---- bounds ---------------------------------------------------------------
MaxMailings == 1      \* mailings ever created (auto-increment pk never reused)
MaxTime     == 2      \* the clock runs over 0..MaxTime
MaxLogs     == 4      \* MailingLog rows ever created (auto-increment id)

\* ---- fixtures: accounts and the recipient directory -----------------------
Users == {"u1", "mgr", "su"}

\* user.groups.filter(name="Managers").exists()
IsManager(u) == u = "mgr"

\* user.is_superuser
IsSuperuser(u) == u = "su"

RecipientIds == {"r1", "r2"}

\* Recipients.owner: the directory belongs to the plain user.
RecipientOwner(r) == "u1"

\* The browsers that hold a session cookie, and request.user.pk of a
\* browser that is not logged in.
Clients == {"c1", "c2"}
NoUser == 0

\* The end times a form submission may carry: the clock runs over
\* 0..MaxTime, so every end time has an instant before and one after it.
EndTimes == 1..(MaxTime - 1)

VARIABLES
    now,              \* timezone.now()
    mailings,         \* Mailing table: pk -> row
    next_mailing_id,  \* next auto-increment pk of Mailing
    rcpts,            \* Recipients table: the ids that exist
    logs,             \* MailingLog table: set of rows
    next_log_id,      \* next auto-increment id of MailingLog
    settings,         \* MailingSettings table: set of rows
    next_settings_id, \* next auto-increment id of MailingSettings
    templates,        \* Message table: id -> row
    next_message_id,  \* next auto-increment id of Message
    cache,            \* django.core.cache: key -> value, for the keys that are set
    reqs,             \* send requests in progress: request -> its local variables
    accounts,         \* CustomUser table: pk -> row, for the users who registered
    next_user_id,     \* next auto-increment pk of CustomUser
    sessions          \* the user each browser is logged in as, NoUser if none

\* The tables of the users application and the sessions.
user_vars == <<accounts, next_user_id, sessions>>

vars == <<now, mailings, next_mailing_id, rcpts, logs, next_log_id,
          settings, next_settings_id, templates, next_message_id, cache, reqs,
          accounts, next_user_id, sessions>>

\* ---- Mailing: computed properties -----------------------------------------

\* mailing.logs (related_name="logs")
LogsOf(pk) == {l \in logs : l.mailing = pk}

\* Variants of Mailing.status with a plausible slip each.
StatusLogsFirst(pk) ==
    LET m == mailings[pk] IN
    IF Cardinality(LogsOf(pk)) = 0 THEN "Created"
    ELSE IF ~m.is_active THEN "Disabled"
    ELSE IF now > m.end_time THEN "Completed"
    ELSE "Running"

StatusTimeFirst(pk) ==
    LET m == mailings[pk] IN
    IF ~m.is_active THEN "Disabled"
    ELSE IF now > m.end_time THEN "Completed"
    ELSE IF Cardinality(LogsOf(pk)) = 0 THEN "Created"
    ELSE "Running"

StatusEndExclusive(pk) ==
    LET m == mailings[pk] IN
    IF ~m.is_active THEN "Disabled"
    ELSE IF Cardinality(LogsOf(pk)) = 0 THEN "Created"
    ELSE IF now >= m.end_time THEN "Completed"
    ELSE "Running"

StatusNeverCompleted(pk) ==
    LET m == mailings[pk] IN
    IF ~m.is_active THEN "Disabled"
    ELSE IF Cardinality(LogsOf(pk)) = 0 THEN "Created"
    ELSE "Running"

\* Mailing.status
Status(pk) ==
    LET m == mailings[pk] IN
    IF ~m.is_active THEN "Disabled"
    ELSE IF Cardinality(LogsOf(pk)) = 0 THEN "Created"
    ELSE IF now > m.end_time THEN "Completed"
    ELSE IF Cardinality(LogsOf(pk)) > 0 /\ m.is_active THEN "Running"
    ELSE "Created"

\* ---- MailingSendView.post -------------------------------------------------

\* Variants of the gate with a plausible slip each: the is_active test
\* missing, the is_active test made before the recipient test, the expiry
\* test missing, a superuser let through like in the other views.
SendGateNoActive(actor, pk) ==
    LET m == mailings[pk] IN
    IF ~(m.owner = actor \/ IsManager(actor)) THEN "denied"
    ELSE IF Cardinality(m.recipients) = 0 THEN "no_recipients"
    ELSE IF now > m.end_time THEN "expired"
    ELSE "permitted"

SendGateActiveFirst(actor, pk) ==
    LET m == mailings[pk] IN
    IF ~(m.owner = actor \/ IsManager(actor)) THEN "denied"
    ELSE IF ~m.is_active THEN "disabled"
    ELSE IF Cardinality(m.recipients) = 0 THEN "no_recipients"
    ELSE IF now > m.end_time THEN "expired"
    ELSE "permitted"

SendGateNoExpiry(actor, pk) ==
    LET m == mailings[pk] IN
    IF ~(m.owner = actor \/ IsManager(actor)) THEN "denied"
    ELSE IF Cardinality(m.recipients) = 0 THEN "no_recipients"
    ELSE IF ~m.is_active THEN "disabled"
    ELSE "permitted"

SendGateSuperuser(actor, pk) ==
    LET m == mailings[pk] IN
    IF ~(m.owner = actor \/ IsManager(actor) \/ IsSuperuser(actor)) THEN "denied"
    ELSE IF Cardinality(m.recipients) = 0 THEN "no_recipients"
    ELSE IF ~m.is_active THEN "disabled"
    ELSE IF now > m.end_time THEN "expired"
    ELSE "permitted"

\* Two more variants of the gate: the expiry test made before the
\* is_active test, and the expiry test made with >= instead of >.
SendGateExpiryFirst(actor, pk) ==
    LET m == mailings[pk] IN
    IF ~(m.owner = actor \/ IsManager(actor)) THEN "denied"
    ELSE IF Cardinality(m.recipients) = 0 THEN "no_recipients"
    ELSE IF now > m.end_time THEN "expired"
    ELSE IF ~m.is_active THEN "disabled"
    ELSE "permitted"

SendGateEndInclusive(actor, pk) ==
    LET m == mailings[pk] IN
    IF ~(m.owner = actor \/ IsManager(actor)) THEN "denied"
    ELSE IF Cardinality(m.recipients) = 0 THEN "no_recipients"
    ELSE IF ~m.is_active THEN "disabled"
    ELSE IF now >= m.end_time THEN "expired"
    ELSE "permitted"

\* The four checks made before the recipient loop, in source order.
SendGate(actor, pk) ==
    LET m == mailings[pk] IN
    IF ~(m.owner = actor \/ IsManager(actor)) THEN "denied"
    ELSE IF Cardinality(m.recipients) = 0 THEN "no_recipients"
    ELSE IF ~m.is_active THEN "disabled"
    ELSE IF now > m.end_time THEN "expired"
    ELSE "permitted"

\* The orders in which mailing.recipients.all() may yield the set R
\* (the queryset carries no ORDER BY).
Orders(R) ==
    {s \in [1..Cardinality(R) -> R] : \A i, j \in DOMAIN s : i # j => s[i] # s[j]}

\* One MailingLog row as MailingLog.objects.create writes it.
LogRow(id, pk, r, status) ==
    [id |-> id, mailing |-> pk, recipient |-> r, status |-> status,
     attempt_time |-> now]

\* Variants of the loop with a plausible slip each: the first failure ends
\* the loop; a recipient that already has a row for this mailing is skipped.
RECURSIVE SendLoopAbort(_, _, _, _)
SendLoopAbort(pk, order, F, acc) ==
    IF order = <<>> THEN acc
    ELSE LET r  == Head(order)
             ok == r \notin F
             row == LogRow(acc.next_log_id, pk, r, IF ok THEN "sent" ELSE "failed")
             nxt == [logs        |-> acc.logs \cup {row},
                     next_log_id |-> acc.next_log_id + 1,
                     mailed      |-> Append(acc.mailed, r),
                     sent        |-> acc.sent + (IF ok THEN 1 ELSE 0),
                     failed      |-> acc.failed + (IF ok THEN 0 ELSE 1)]
         IN IF ok THEN SendLoopAbort(pk, Tail(order), F, nxt) ELSE nxt

RECURSIVE SendLoopSkipSent(_, _, _, _)
SendLoopSkipSent(pk, order, F, acc) ==
    IF order = <<>> THEN acc
    ELSE LET r  == Head(order)
             ok == r \notin F
             row == LogRow(acc.next_log_id, pk, r, IF ok THEN "sent" ELSE "failed")
         IN IF \E l \in acc.logs : l.mailing = pk /\ l.recipient = r
            THEN SendLoopSkipSent(pk, Tail(order), F, acc)
            ELSE SendLoopSkipSent(pk, Tail(order), F,
                    [logs        |-> acc.logs \cup {row},
                     next_log_id |-> acc.next_log_id + 1,
                     mailed      |-> Append(acc.mailed, r),
                     sent        |-> acc.sent + (IF ok THEN 1 ELSE 0),
                     failed      |-> acc.failed + (IF ok THEN 0 ELSE 1)])

\* The for-loop over the recipients: one send_mail call per recipient, a
\* "sent" row when it returns and a "failed" row when it raises (r \in F).
\* acc carries the table, the next id, the calls made and the two counters.
\* A variant of the loop that calls the transport again for a recipient it
\* failed for, max_retries times, before it writes the "failed" row.
\* A variant of the loop that leaves the row of a failed call at "pending".
RECURSIVE SendLoopPending(_, _, _, _)
SendLoopPending(pk, order, F, acc) ==
    IF order = <<>> THEN acc
    ELSE LET r  == Head(order)
             ok == r \notin F
             row == LogRow(acc.next_log_id, pk, r, IF ok THEN "sent" ELSE "pending")
         IN SendLoopPending(pk, Tail(order), F,
                [logs        |-> acc.logs \cup {row},
                 next_log_id |-> acc.next_log_id + 1,
                 mailed      |-> Append(acc.mailed, r),
                 sent        |-> acc.sent + (IF ok THEN 1 ELSE 0),
                 failed      |-> acc.failed + (IF ok THEN 0 ELSE 1)])

RECURSIVE SendLoopRetry(_, _, _, _)
SendLoopRetry(pk, order, F, acc) ==
    IF order = <<>> THEN acc
    ELSE LET r  == Head(order)
             ok == r \notin F
             tries == IF ok \/ ~(\E s \in settings : s.mailing = pk) THEN 0
                      ELSE (CHOOSE s \in settings : s.mailing = pk).max_retries
             row == LogRow(acc.next_log_id, pk, r, IF ok THEN "sent" ELSE "failed")
         IN SendLoopRetry(pk, Tail(order), F,
                [logs        |-> acc.logs \cup {row},
                 next_log_id |-> acc.next_log_id + 1,
                 mailed      |-> acc.mailed \o [i \in 1..(1 + tries) |-> r],
                 sent        |-> acc.sent + (IF ok THEN 1 ELSE 0),
                 failed      |-> acc.failed + (IF ok THEN 0 ELSE 1)])

RECURSIVE SendLoop(_, _, _, _)
SendLoop(pk, order, F, acc) ==
    IF order = <<>> THEN acc
    ELSE LET r  == Head(order)
             ok == r \notin F
             row == LogRow(acc.next_log_id, pk, r, IF ok THEN "sent" ELSE "failed")
         IN SendLoop(pk, Tail(order), F,
                [logs        |-> acc.logs \cup {row},
                 next_log_id |-> acc.next_log_id + 1,
                 mailed      |-> Append(acc.mailed, r),
                 sent        |-> acc.sent + (IF ok THEN 1 ELSE 0),
                 failed      |-> acc.failed + (IF ok THEN 0 ELSE 1)])

\* What a request leaves behind: the message shown (kind, with the two
\* counters of the success message), the send_mail calls made, and the
\* MailingLog table.
Outcome(kind, sent, failed, mailed, table, next_id) ==
    [kind |-> kind, sent |-> sent, failed |-> failed, mailed |-> mailed,
     logs |-> table, next_log_id |-> next_id]

\* A variant of the view that runs in one transaction: an error after the
\* loop takes the rows of the loop back.
SendResultRollback(actor, pk, order, F, fin_err) ==
    IF pk \notin DOMAIN mailings
    THEN Outcome("not_found", 0, 0, <<>>, logs, next_log_id)
    ELSE IF SendGate(actor, pk) # "permitted"
    THEN Outcome(SendGate(actor, pk), 0, 0, <<>>, logs, next_log_id)
    ELSE LET res == SendLoop(pk, order, F,
                        [logs |-> logs, next_log_id |-> next_log_id,
                         mailed |-> <<>>, sent |-> 0, failed |-> 0])
         IN IF fin_err
            THEN Outcome("error", 0, 0, res.mailed, logs, next_log_id)
            ELSE Outcome("success", res.sent, res.failed, res.mailed, res.logs,
                         res.next_log_id)

\* post(request, pk) by actor. The recipients come back in `order`, the
\* transport raises for the recipients in F, and fin_err says whether the
\* cache calls after the loop raise (caught by the outer except).
SendResult(actor, pk, order, F, fin_err) ==
    IF pk \notin DOMAIN mailings
    THEN Outcome("not_found", 0, 0, <<>>, logs, next_log_id)
    ELSE IF SendGate(actor, pk) # "permitted"
    THEN Outcome(SendGate(actor, pk), 0, 0, <<>>, logs, next_log_id)
    ELSE LET res == SendLoop(pk, order, F,
                        [logs |-> logs, next_log_id |-> next_log_id,
                         mailed |-> <<>>, sent |-> 0, failed |-> 0])
         IN IF fin_err
            THEN Outcome("error", 0, 0, res.mailed, res.logs, res.next_log_id)
            ELSE Outcome("success", res.sent, res.failed, res.mailed, res.logs,
                         res.next_log_id)

\* post(request, pk) when the database stops taking MailingLog rows at the
\* k-th recipient: send_mail is called for it, MailingLog.objects.create
\* raises, in the try block or in its except block, and the error leaves
\* the loop for the outer except. The rows of the recipients before it are
\* written.
SendAbortResult(actor, pk, order, F, k) ==
    IF pk \notin DOMAIN mailings
    THEN Outcome("not_found", 0, 0, <<>>, logs, next_log_id)
    ELSE IF SendGate(actor, pk) # "permitted"
    THEN Outcome(SendGate(actor, pk), 0, 0, <<>>, logs, next_log_id)
    ELSE LET res == SendLoop(pk, SubSeq(order, 1, k - 1), F,
                        [logs |-> logs, next_log_id |-> next_log_id,
                         mailed |-> <<>>, sent |-> 0, failed |-> 0])
         IN Outcome("error", 0, 0, Append(res.mailed, order[k]), res.logs,
                    res.next_log_id)

\* The inputs a send on pk can meet in the current state.
SendOrders(pk) ==
    IF pk \in DOMAIN mailings THEN Orders(mailings[pk].recipients) ELSE {<<>>}

SendFailures(pk) ==
    IF pk \in DOMAIN mailings THEN SUBSET mailings[pk].recipients ELSE {{}}

Send(actor, pk, order, F, fin_err) ==
    LET res == SendResult(actor, pk, order, F, fin_err) IN
    /\ res.next_log_id - 1 <= MaxLogs
    /\ logs' = res.logs
    /\ next_log_id' = res.next_log_id
    /\ UNCHANGED <<now, mailings, next_mailing_id, rcpts, settings, next_settings_id,
                   templates, next_message_id>>

SendAbort(actor, pk, order, F, k) ==
    LET res == SendAbortResult(actor, pk, order, F, k) IN
    /\ k \in 1..Len(order)
    /\ res.next_log_id - 1 <= MaxLogs
    /\ logs' = res.logs
    /\ next_log_id' = res.next_log_id
    /\ UNCHANGED <<now, mailings, next_mailing_id, rcpts, settings, next_settings_id,
                   templates, next_message_id>>

\* ---- MailingForm ----------------------------------------------------------

\* MailingForm.__init__: the recipients the form lets the user choose from.
RecipientChoices(user) ==
    IF ~(IsManager(user) \/ IsSuperuser(user))
    THEN {r \in rcpts : RecipientOwner(r) = user}
    ELSE rcpts

\* A variant of clean that lets a start time equal to the end time through.
FormValidStrict(user, st, et, rs) ==
    /\ rs # {}
    /\ rs \subseteq RecipientChoices(user)
    /\ ~(st > et)

\* MailingForm.clean, after the field checks: recipients is a required
\* field whose values come from the form's queryset.
FormValid(user, st, et, rs) ==
    /\ rs # {}
    /\ rs \subseteq RecipientChoices(user)
    /\ ~(st >= et)

\* The empty choice of the existing_message field (required=False).
NoTemplate == 0

\* MailingForm.__init__: the templates the form lets the user choose from.
TemplateChoices(user) ==
    {t \in DOMAIN templates : templates[t].owner = user /\ templates[t].is_template}

\* The text a user types into message_text (a required field).
Texts == {"typed"}

\* A variant of clean that keeps the typed text.
CleanedTextTyped(text, existing) == text

\* MailingForm.clean: a chosen template replaces the typed text by its body.
CleanedText(text, existing) ==
    IF existing # NoTemplate THEN templates[existing].body ELSE text

\* ---- MailingSettings ------------------------------------------------------

DefaultMaxRetries == 3
DefaultRetryDelay == 60

SettingsOf(pk) == {s \in settings : s.mailing = pk}

\* A variant of the receiver that does not look at `created`.
CreateMailingSettingsAlways(pk, created) ==
    [settings |-> settings \cup {[id |-> next_settings_id, mailing |-> pk,
                                  max_retries |-> DefaultMaxRetries,
                                  retry_delay |-> DefaultRetryDelay]},
     next_settings_id |-> next_settings_id + 1]

\* create_mailing_settings, the post_save receiver of Mailing: the tables
\* after a save of mailing pk.
CreateMailingSettings(pk, created) ==
    IF created /\ SettingsOf(pk) = {}
    THEN [settings |-> settings \cup {[id |-> next_settings_id, mailing |-> pk,
                                       max_retries |-> DefaultMaxRetries,
                                       retry_delay |-> DefaultRetryDelay]},
          next_settings_id |-> next_settings_id + 1]
    ELSE [settings |-> settings, next_settings_id |-> next_settings_id]

\* ---- MailingCreateView ----------------------------------------------------

MailingCreate(actor, st, et, rs, text, existing) ==
    /\ next_mailing_id <= MaxMailings
    /\ FormValid(actor, st, et, rs)
    /\ existing \in TemplateChoices(actor) \cup {NoTemplate}
    /\ mailings' = [p \in DOMAIN mailings \cup {next_mailing_id} |->
                      IF p = next_mailing_id
                      THEN [owner |-> actor, start_time |-> st, end_time |-> et,
                            recipients |-> rs, is_active |-> TRUE,
                            message_text |-> CleanedText(text, existing)]
                      ELSE mailings[p]]
    /\ next_mailing_id' = next_mailing_id + 1
    /\ settings' = CreateMailingSettings(next_mailing_id, TRUE).settings
    /\ next_settings_id' = CreateMailingSettings(next_mailing_id, TRUE).next_settings_id
    /\ UNCHANGED <<now, rcpts, logs, next_log_id, templates, next_message_id>>

\* ---- MailingUpdateView ----------------------------------------------------

\* A variant of form_valid that saves the is_active the form carries.
MailingUpdateFormActive(actor, pk, st, et, rs, active, text, existing) ==
    /\ pk \in DOMAIN mailings
    /\ mailings[pk].owner = actor
    /\ FormValid(actor, st, et, rs)
    /\ existing \in TemplateChoices(actor) \cup {NoTemplate}
    /\ mailings' = [mailings EXCEPT ![pk] =
                      [owner |-> @.owner, start_time |-> st, end_time |-> et,
                       recipients |-> rs, is_active |-> active,
                       message_text |-> CleanedText(text, existing)]]
    /\ settings' = settings
    /\ next_settings_id' = next_settings_id
    /\ UNCHANGED <<now, next_mailing_id, rcpts, logs, next_log_id,
                   templates, next_message_id>>

\* Only the owner passes OwnerRequiredMixin. form_valid keeps the stored
\* is_active unless the user is a manager or a superuser.
MailingUpdate(actor, pk, st, et, rs, active, text, existing) ==
    /\ pk \in DOMAIN mailings
    /\ mailings[pk].owner = actor
    /\ FormValid(actor, st, et, rs)
    /\ existing \in TemplateChoices(actor) \cup {NoTemplate}
    /\ mailings' = [mailings EXCEPT ![pk] =
                      [owner |-> @.owner, start_time |-> st, end_time |-> et,
                       recipients |-> rs,
                       is_active |-> IF ~(IsManager(actor) \/ IsSuperuser(actor))
                                     THEN @.is_active ELSE active,
                       message_text |-> CleanedText(text, existing)]]
    /\ settings' = CreateMailingSettings(pk, FALSE).settings
    /\ next_settings_id' = CreateMailingSettings(pk, FALSE).next_settings_id
    /\ UNCHANGED <<now, next_mailing_id, rcpts, logs, next_log_id,
                   templates, next_message_id>>

\* ---- MailingDeleteView ----------------------------------------------------

\* Only the owner passes OwnerRequiredMixin; the mailing's MailingLog rows
\* and its MailingSettings row go with it (on_delete=CASCADE).
MailingDelete(actor, pk) ==
    /\ pk \in DOMAIN mailings
    /\ mailings[pk].owner = actor
    /\ mailings' = [p \in DOMAIN mailings \ {pk} |-> mailings[p]]
    /\ logs' = {l \in logs : l.mailing # pk}
    /\ settings' = {s \in settings : s.mailing # pk}
    /\ UNCHANGED <<now, next_mailing_id, rcpts, next_log_id, next_settings_id,
                   templates, next_message_id>>

\* ---- MailingToggleActiveView.post -----------------------------------------

ToggleActive(actor, pk) ==
    /\ pk \in DOMAIN mailings
    /\ IsManager(actor) \/ IsSuperuser(actor)
    /\ mailings' = [mailings EXCEPT ![pk].is_active = ~mailings[pk].is_active]
    /\ settings' = CreateMailingSettings(pk, FALSE).settings
    /\ next_settings_id' = CreateMailingSettings(pk, FALSE).next_settings_id
    /\ UNCHANGED <<now, next_mailing_id, rcpts, logs, next_log_id,
                   templates, next_message_id>>

\* ---- RecipientDeleteView --------------------------------------------------

\* The owner of a recipient deletes it: the row goes, and with it its
\* MailingLog rows (on_delete=CASCADE) and its links to mailings.
RecipientDelete(actor, r) ==
    /\ r \in rcpts
    /\ RecipientOwner(r) = actor
    /\ rcpts' = rcpts \ {r}
    /\ logs' = {l \in logs : l.recipient # r}
    /\ mailings' = [p \in DOMAIN mailings |->
                      [mailings[p] EXCEPT !.recipients = @ \ {r}]]
    /\ UNCHANGED <<now, next_mailing_id, next_log_id, settings, next_settings_id,
                   templates, next_message_id>>

\* ---- the clock ------------------------------------------------------------

Tick ==
    /\ now < MaxTime
    /\ now' = now + 1
    /\ UNCHANGED <<mailings, next_mailing_id, rcpts, logs, next_log_id,
                   settings, next_settings_id, templates, next_message_id>>

\* ---- specification --------------------------------------------------------

Init ==
    /\ now = 0
    /\ mailings = <<>>
    /\ next_mailing_id = 1
    /\ rcpts = RecipientIds
    /\ logs = {}
    /\ next_log_id = 1
    /\ settings = {}
    /\ next_settings_id = 1
    /\ templates = <<>>
    /\ next_message_id = 1
    /\ cache = <<>>
    /\ reqs = <<>>
    /\ accounts = <<>>
    /\ next_user_id = 1
    /\ sessions = [c \in Clients |-> NoUser]

\* Spec follows the tables: the cache and the statement-level position of
\* a request are left aside.
SendStep ==
    \E actor \in Users, pk \in 1..MaxMailings :
       \E order \in SendOrders(pk), F \in SendFailures(pk), fin_err \in BOOLEAN :
          Send(actor, pk, order, F, fin_err) /\ UNCHANGED <<cache, reqs, user_vars>>

SendAbortStep ==
    \E actor \in Users, pk \in 1..MaxMailings :
       \E order \in SendOrders(pk), F \in SendFailures(pk), k \in 1..Cardinality(RecipientIds) :
          SendAbort(actor, pk, order, F, k) /\ UNCHANGED <<cache, reqs, user_vars>>

CreateStep ==
    \E actor \in Users, et \in EndTimes, rs \in SUBSET RecipientIds, text \in Texts :
       \E st \in {et - 1, et}, existing \in TemplateChoices(actor) \cup {NoTemplate} :
          MailingCreate(actor, st, et, rs, text, existing) /\ UNCHANGED <<cache, reqs, user_vars>>

UpdateStep ==
    \E actor \in Users, pk \in 1..MaxMailings, et \in EndTimes,
       rs \in SUBSET RecipientIds, active \in BOOLEAN, text \in Texts :
       \E st \in {et - 1, et}, existing \in TemplateChoices(actor) \cup {NoTemplate} :
          MailingUpdate(actor, pk, st, et, rs, active, text, existing)
          /\ UNCHANGED <<cache, reqs, user_vars>>

DeleteStep ==
    \E actor \in Users, pk \in 1..MaxMailings :
       MailingDelete(actor, pk) /\ UNCHANGED <<cache, reqs, user_vars>>

ToggleStep ==
    \E actor \in Users, pk \in 1..MaxMailings :
       ToggleActive(actor, pk) /\ UNCHANGED <<cache, reqs, user_vars>>

RecipientDeleteStep ==
    \E actor \in Users, r \in RecipientIds :
       RecipientDelete(actor, r) /\ UNCHANGED <<cache, reqs, user_vars>>

TickStep == Tick /\ UNCHANGED <<cache, reqs, user_vars>>

Next ==
    \/ SendStep
    \/ SendAbortStep
    \/ CreateStep
    \/ UpdateStep
    \/ DeleteStep
    \/ ToggleStep
    \/ RecipientDeleteStep
    \/ TickStep

Spec == Init /\ [][Next]_vars

\* ---- properties of Mailing.status -----------------------------------------

\* C1: in every reachable state a mailing whose is_active is false has status
\* Disabled, whatever the current time, its end_time and the number of
\* MailingLog rows it has.
C1_InactiveIsDisabled ==
    \A pk \in DOMAIN mailings :
        ~mailings[pk].is_active => Status(pk) = "Disabled"

\* An inactive mailing that has rows and whose end_time has passed.
C1_Witness ==
    \E pk \in DOMAIN mailings :
        /\ ~mailings[pk].is_active
        /\ LogsOf(pk) # {}
        /\ now > mailings[pk].end_time

\* C2: an active mailing with zero MailingLog rows has status Created, also
\* when the current time is after end_time.
C2_NoAttemptsIsCreated ==
    \A pk \in DOMAIN mailings :
        (mailings[pk].is_active /\ LogsOf(pk) = {}) => Status(pk) = "Created"

\* An active mailing without rows whose end_time has passed.
C2_Witness ==
    \E pk \in DOMAIN mailings :
        /\ mailings[pk].is_active
        /\ LogsOf(pk) = {}
        /\ now > mailings[pk].end_time

\* C3: an active mailing with at least one MailingLog row and
\* now <= end_time (now = end_time included) has status Running.
C3_AttemptsInWindowIsRunning ==
    \A pk \in DOMAIN mailings :
        (mailings[pk].is_active /\ LogsOf(pk) # {} /\ now <= mailings[pk].end_time)
            => Status(pk) = "Running"

\* The boundary: an active mailing with rows at the instant now = end_time.
C3_Witness ==
    \E pk \in DOMAIN mailings :
        /\ mailings[pk].is_active
        /\ LogsOf(pk) # {}
        /\ now = mailings[pk].end_time

\* C4: an active mailing with at least one MailingLog row and now strictly
\* after end_time has status Completed, and Completed is the status in no
\* other case.
C4_CompletedIffExpiredWithAttempts ==
    \A pk \in DOMAIN mailings :
        Status(pk) = "Completed"
            <=> (mailings[pk].is_active /\ LogsOf(pk) # {}
                 /\ now > mailings[pk].end_time)

\* An active mailing with rows after its end_time.
C4_Witness ==
    \E pk \in DOMAIN mailings :
        /\ mailings[pk].is_active
        /\ Cardinality(LogsOf(pk)) >= 1
        /\ now > mailings[pk].end_time
        /\ Status(pk) = "Completed"

\* ---- properties of MailingSendView.post -----------------------------------

\* The four conditions of the send gate, as the specification lists them.
GateHolds(actor, pk) ==
    /\ mailings[pk].owner = actor \/ IsManager(actor)
    /\ Cardinality(mailings[pk].recipients) >= 1
    /\ mailings[pk].is_active
    /\ ~(now > mailings[pk].end_time)

\* The actor is the owner of the mailing or a member of Managers.
MaySend(actor, pk) == mailings[pk].owner = actor \/ IsManager(actor)

\* The request wrote nothing and called the transport for nobody.
NoEffect(res) ==
    /\ res.mailed = <<>>
    /\ res.logs = logs
    /\ res.next_log_id = next_log_id

\* The rows of table for mailing pk and recipient r.
RowsFor(table, pk, r) == {l \in table : l.mailing = pk /\ l.recipient = r}

\* C5: a send calls the transport and appends MailingLog rows only if all
\* four hold when the gate is evaluated: the actor is the owner or a
\* manager, the mailing has a recipient, is_active is true and now is not
\* after end_time; if one fails, no transport call and no row.
C5_SendOnlyThroughGate ==
    \A actor \in Users, pk \in DOMAIN mailings :
        \A order \in SendOrders(pk), F \in SendFailures(pk), fin_err \in BOOLEAN :
            LET res == SendResult(actor, pk, order, F, fin_err) IN
            /\ (res.mailed # <<>> \/ res.logs # logs) => GateHolds(actor, pk)
            /\ ~GateHolds(actor, pk) => NoEffect(res)

\* A send has written rows for a mailing that has been disabled since: the
\* gate let one request through and now refuses.
C5_Witness ==
    \E pk \in DOMAIN mailings :
        /\ LogsOf(pk) # {}
        /\ ~mailings[pk].is_active
        /\ \E actor \in Users : MaySend(actor, pk)

\* C6: a send by an authorized actor on a mailing with zero recipients is
\* denied with the 'no recipients' reason, makes no transport call and
\* leaves the MailingLog rows unchanged.
C6_NoRecipientsDenied ==
    \A actor \in Users, pk \in DOMAIN mailings :
        (MaySend(actor, pk) /\ mailings[pk].recipients = {}) =>
            \A order \in SendOrders(pk), F \in SendFailures(pk), fin_err \in BOOLEAN :
                LET res == SendResult(actor, pk, order, F, fin_err) IN
                res.kind = "no_recipients" /\ NoEffect(res)

\* A mailing that lost all its recipients, is disabled and has expired.
C6_Witness ==
    \E pk \in DOMAIN mailings :
        /\ mailings[pk].recipients = {}
        /\ ~mailings[pk].is_active
        /\ now > mailings[pk].end_time

\* C7: a send by an authorized actor on an active mailing with at least one
\* recipient whose end_time is before now is denied with the 'expired'
\* reason and writes no MailingLog row.
C7_ExpiredDenied ==
    \A actor \in Users, pk \in DOMAIN mailings :
        (/\ MaySend(actor, pk)
         /\ mailings[pk].is_active
         /\ mailings[pk].recipients # {}
         /\ mailings[pk].end_time < now) =>
            \A order \in SendOrders(pk), F \in SendFailures(pk), fin_err \in BOOLEAN :
                LET res == SendResult(actor, pk, order, F, fin_err) IN
                res.kind = "expired" /\ NoEffect(res)

\* An active mailing with two recipients after its end_time.
C7_Witness ==
    \E pk \in DOMAIN mailings :
        /\ mailings[pk].is_active
        /\ Cardinality(mailings[pk].recipients) = 2
        /\ mailings[pk].end_time < now

\* C8: a send by an actor who is neither the owner nor a manager is denied
\* before any other check and has no effect: no transport call, no row.
C8_UnauthorizedDenied ==
    \A actor \in Users, pk \in DOMAIN mailings :
        ~MaySend(actor, pk) =>
            \A order \in SendOrders(pk), F \in SendFailures(pk), fin_err \in BOOLEAN :
                LET res == SendResult(actor, pk, order, F, fin_err) IN
                res.kind = "denied" /\ NoEffect(res)

\* A superuser who does not own the mailing, which moreover has no
\* recipient left: the denial comes from the first check.
C8_Witness ==
    \E pk \in DOMAIN mailings, actor \in Users :
        /\ ~MaySend(actor, pk)
        /\ IsSuperuser(actor)
        /\ mailings[pk].recipients = {}

\* C9: a permitted send with recipients R, the transport raising for F,
\* calls the transport once for every recipient of R, appends exactly one
\* 'sent' row per recipient of R \ F and one 'failed' row per recipient of
\* F, reports sent = |R| - |F| and failed = |F| (when the finalisation after
\* the loop does not fail), and ends with a response, never an exception.
C9_EveryRecipientProcessed ==
    \A actor \in Users, pk \in DOMAIN mailings :
        GateHolds(actor, pk) =>
            \A order \in SendOrders(pk), F \in SendFailures(pk), fin_err \in BOOLEAN :
                LET res == SendResult(actor, pk, order, F, fin_err)
                    R   == mailings[pk].recipients
                    new == res.logs \ logs
                IN /\ logs \subseteq res.logs
                   /\ res.mailed = order
                   /\ \A r \in R : Cardinality(RowsFor(new, pk, r)) = 1
                   /\ \A l \in new :
                        /\ l.mailing = pk
                        /\ l.recipient \in R
                        /\ l.status = IF l.recipient \in F THEN "failed" ELSE "sent"
                   /\ res.kind \in {"success", "error"}
                   /\ ~fin_err =>
                        /\ res.kind = "success"
                        /\ res.sent = Cardinality(R) - Cardinality(F)
                        /\ res.failed = Cardinality(F)

\* A failed row followed, in the same send, by a sent row for another
\* recipient: the failure did not end the loop.
C9_Witness ==
    \E pk \in DOMAIN mailings :
        \E a, b \in LogsOf(pk) :
            /\ a.status = "failed"
            /\ b.status = "sent"
            /\ b.id = a.id + 1
            /\ a.recipient # b.recipient
            /\ a.attempt_time = b.attempt_time

\* C10: sending is not idempotent: every permitted send adds exactly one row
\* per recipient to the rows the mailing already has, so k sends on n
\* recipients leave k*n rows, k per recipient; none is skipped because an
\* earlier attempt exists.
C10_SendAddsOneRowPerRecipient ==
    \A actor \in Users, pk \in DOMAIN mailings :
        GateHolds(actor, pk) =>
            \A order \in SendOrders(pk), F \in SendFailures(pk), fin_err \in BOOLEAN :
                LET res == SendResult(actor, pk, order, F, fin_err)
                    R   == mailings[pk].recipients
                IN /\ \A r \in R :
                        Cardinality(RowsFor(res.logs, pk, r))
                            = Cardinality(RowsFor(logs, pk, r)) + 1
                   /\ Cardinality({l \in res.logs : l.mailing = pk})
                            = Cardinality(LogsOf(pk)) + Cardinality(R)

\* Two sends on a mailing with two recipients: four rows, two per recipient.
C10_Witness ==
    \E pk \in DOMAIN mailings :
        /\ Cardinality(mailings[pk].recipients) = 2
        /\ \A r \in mailings[pk].recipients : Cardinality(RowsFor(logs, pk, r)) = 2
        /\ Cardinality(LogsOf(pk)) = 4

\* ---- properties of MailingSettings and MailingForm -------------------------

\* C17: after any sequence of mailing creations and later saves (update,
\* toggle), every existing mailing has exactly one MailingSettings row: the
\* row is there from the creation on and no later save adds a second one.
C17_OneSettingsRowPerMailing ==
    \A pk \in DOMAIN mailings : Cardinality(SettingsOf(pk)) = 1

\* A mailing that was saved again after its creation (it was created
\* active) and still has its one row.
C17_Witness ==
    \E pk \in DOMAIN mailings :
        /\ ~mailings[pk].is_active
        /\ Cardinality(SettingsOf(pk)) = 1

\* C18: the form rejects a submission whose start_time is at or after its
\* end_time, so every mailing written by the create and update views has
\* its end_time strictly after its start_time; no such submission passes
\* the form, whoever submits it and whatever else it carries.
C18_EndAfterStart ==
    /\ \A pk \in DOMAIN mailings : mailings[pk].start_time < mailings[pk].end_time
    /\ \A actor \in Users, rs \in SUBSET RecipientIds, et \in EndTimes :
          \A st \in et..MaxTime : ~FormValid(actor, st, et, rs)

\* A mailing rewritten by an update after a send (it has an attempt for a
\* recipient that exists and is no longer on its list), in a state where
\* its owner can fill in the form again.
C18_Witness ==
    \E pk \in DOMAIN mailings :
        /\ \E l \in LogsOf(pk) :
              l.recipient \in rcpts /\ l.recipient \notin mailings[pk].recipients
        /\ RecipientChoices(mailings[pk].owner) # {}

\* ---- Mailing: statistics ----------------------------------------------------

\* The counters are queries on the MailingLog table as it is when they run.
SentCount(table, pk) ==
    Cardinality({l \in table : l.mailing = pk /\ l.status = "sent"})

FailedCount(table, pk) ==
    Cardinality({l \in table : l.mailing = pk /\ l.status = "failed"})

TotalCount(table, pk) ==
    Cardinality({l \in table : l.mailing = pk})

\* round(n / d * 100, 2) in hundredths of a percent: the nearest integer to
\* 10000 * n / d, a tie going to the even one.
RoundedPercent(n, d) ==
    LET q == (10000 * n) \div d
        r == (10000 * n) % d
    IN IF 2 * r < d THEN q
       ELSE IF 2 * r > d THEN q + 1
       ELSE IF q % 2 = 0 THEN q ELSE q + 1

\* A variant of success_rate: the quotient cut off after two decimals.
SuccessRateTruncated(table, pk) ==
    IF TotalCount(table, pk) = 0 THEN 0
    ELSE (10000 * SentCount(table, pk)) \div TotalCount(table, pk)

\* Mailing.success_rate, in hundredths of a percent (7000 is 70.0).
SuccessRate(table, pk) ==
    IF TotalCount(table, pk) = 0 THEN 0
    ELSE RoundedPercent(SentCount(table, pk), TotalCount(table, pk))

\* The dictionary get_cached_stats builds.
Stats(table, pk) ==
    [sent_count    |-> SentCount(table, pk),
     failed_count  |-> FailedCount(table, pk),
     total_count   |-> TotalCount(table, pk),
     success_rate  |-> SuccessRate(table, pk)]

\* ---- MailingLog: the recent rows ---------------------------------------------

\* order_by("-attempt_time"): attempt_time is set when the row is created,
\* so among the rows of one clock value the later id is the later row.
RECURSIVE OrderByAttemptTimeDesc(_)
OrderByAttemptTimeDesc(S) ==
    IF S = {} THEN <<>>
    ELSE LET m == CHOOSE x \in S :
                    \A y \in S : \/ y.attempt_time < x.attempt_time
                                 \/ y.attempt_time = x.attempt_time /\ y.id <= x.id
         IN <<m>> \o OrderByAttemptTimeDesc(S \ {m})

\* The query of get_cached_recent_logs: [:limit] of the ordered rows.
RecentLogs(table, pk, limit) ==
    LET all == OrderByAttemptTimeDesc({l \in table : l.mailing = pk})
    IN SubSeq(all, 1, IF Len(all) < limit THEN Len(all) ELSE limit)

\* ---- the cache ----------------------------------------------------------------

\* f"mailing_{self.id}_stats_user_{self.owner.id}"
StatsKey(pk) ==
    "mailing_" \o ToString(pk) \o "_stats_user_" \o mailings[pk].owner

\* f"mailing_{mailing.id}_stats"
PlainStatsKey(pk) == "mailing_" \o ToString(pk) \o "_stats"

\* f"mailing_{mailing_id}_recent_logs_{limit}"
RecentLogsKey(pk, limit) ==
    "mailing_" \o ToString(pk) \o "_recent_logs_" \o ToString(limit)

CacheSet(c, key, value) ==
    [k \in DOMAIN c \cup {key} |-> IF k = key THEN value ELSE c[k]]

CacheDelete(c, keys) == [k \in DOMAIN c \ keys |-> c[k]]

\* The limit MailingDetailView asks for, and the end of range(1, 20) in
\* the two receivers that invalidate.
DetailLimit == 10
InvalidatedLimitsEnd == 20

\* invalidate_logs_cache, the post_save and post_delete receiver of
\* MailingLog.
InvalidateLogsCache(c, pk) ==
    CacheDelete(c, {PlainStatsKey(pk)}
                   \cup {RecentLogsKey(pk, i) : i \in 1..(InvalidatedLimitsEnd - 1)})

\* Mailing.get_cached_stats against cache c and MailingLog table `table`:
\* what it returns and the cache it leaves.
GetCachedStats(c, table, pk) ==
    IF StatsKey(pk) \in DOMAIN c
    THEN [value |-> c[StatsKey(pk)], cache |-> c]
    ELSE [value |-> Stats(table, pk), cache |-> CacheSet(c, StatsKey(pk), Stats(table, pk))]

\* MailingLog.get_cached_recent_logs
GetCachedRecentLogs(c, table, pk, limit) ==
    IF RecentLogsKey(pk, limit) \in DOMAIN c
    THEN [value |-> c[RecentLogsKey(pk, limit)], cache |-> c]
    ELSE [value |-> RecentLogs(table, pk, limit),
          cache |-> CacheSet(c, RecentLogsKey(pk, limit), RecentLogs(table, pk, limit))]

\* UserAccessMixin.get_queryset on Mailing: the mailings a user may open.
Visible(actor) ==
    {pk \in DOMAIN mailings :
        IsManager(actor) \/ IsSuperuser(actor) \/ mailings[pk].owner = actor}

\* MailingDetailView.get_context_data: the recent rows, then the statistics.
MailingDetail(actor, pk) ==
    /\ pk \in Visible(actor)
    /\ cache' = GetCachedStats(GetCachedRecentLogs(cache, logs, pk, DetailLimit).cache,
                               logs, pk).cache
    /\ UNCHANGED <<now, mailings, next_mailing_id, rcpts, logs, next_log_id,
                   settings, next_settings_id, templates, next_message_id>>

\* MailingStatsView.get_queryset: get_cached_stats of every mailing the
\* user may see, one after the other.
RECURSIVE StatsOfAll(_, _)
StatsOfAll(c, pks) ==
    IF pks = {} THEN c
    ELSE LET pk == CHOOSE p \in pks : TRUE
         IN StatsOfAll(GetCachedStats(c, logs, pk).cache, pks \ {pk})

MailingStats(actor) ==
    /\ cache' = StatsOfAll(cache, Visible(actor))
    /\ UNCHANGED <<now, mailings, next_mailing_id, rcpts, logs, next_log_id,
                   settings, next_settings_id, templates, next_message_id>>

\* An entry leaves the cache: its timeout (60 s for the statistics, 30 s
\* for the recent rows) has run out, or the backend dropped it.
Expire(key) ==
    /\ key \in DOMAIN cache
    /\ cache' = CacheDelete(cache, {key})
    /\ UNCHANGED <<now, mailings, next_mailing_id, rcpts, logs, next_log_id,
                   settings, next_settings_id, templates, next_message_id>>

\* ---- SpecStats: the statistics of a delivery log of any content -------------

MaxSent   == 7      \* "sent" rows of the log drawn
MaxFailed == 3      \* "failed" rows of the log drawn

\* A mailing of u1 to both recipients with s attempts that were sent and f
\* that failed, all made at time 0.
InitStats ==
    \E s \in 0..MaxSent, f \in 0..MaxFailed :
       /\ now = 0
       /\ mailings = [p \in {1} |->
                        [owner |-> "u1", start_time |-> 0, end_time |-> 1,
                         recipients |-> RecipientIds, is_active |-> TRUE,
                         message_text |-> "typed"]]
       /\ next_mailing_id = 2
       /\ rcpts = RecipientIds
       /\ logs = {[id |-> i, mailing |-> 1,
                   recipient |-> IF i % 2 = 1 THEN "r1" ELSE "r2",
                   status |-> IF i <= s THEN "sent" ELSE "failed",
                   attempt_time |-> 0] : i \in 1..(s + f)}
       /\ next_log_id = s + f + 1
       /\ settings = {[id |-> 1, mailing |-> 1, max_retries |-> DefaultMaxRetries,
                       retry_delay |-> DefaultRetryDelay]}
       /\ next_settings_id = 2
       /\ templates = <<>>
       /\ next_message_id = 1
       /\ cache = <<>>
       /\ reqs = <<>>
       /\ accounts = <<>>
       /\ next_user_id = 1
       /\ sessions = [c \in Clients |-> NoUser]

DetailStep ==
    \E actor \in Users, pk \in 1..MaxMailings : MailingDetail(actor, pk) /\ UNCHANGED <<reqs, user_vars>>

StatsStep == \E actor \in Users : MailingStats(actor) /\ UNCHANGED <<reqs, user_vars>>

ExpireStep == \E key \in DOMAIN cache : Expire(key) /\ UNCHANGED <<reqs, user_vars>>

NextStats ==
    \/ DetailStep
    \/ StatsStep
    \/ ExpireStep
    \/ TickStep

SpecStats == InitStats /\ [][NextStats]_vars

\* C14: success_rate is exactly 0 when the mailing has no rows; otherwise
\* it is sent_count / total_count * 100 rounded to two decimals (the value
\* with two decimals nearest to the quotient; 7 sent and 3 failed give
\* 70.0), total_count counting all rows and sent_count the "sent" ones; it
\* always lies between 0 and 100. The same holds for the rate a statistics
\* page shows. Rates are in hundredths of a percent.
C14_SuccessRate ==
    \A pk \in DOMAIN mailings :
       LET sent  == Cardinality({l \in LogsOf(pk) : l.status = "sent"})
           total == Cardinality(LogsOf(pk))
           rate  == SuccessRate(logs, pk)
           shown == GetCachedStats(cache, logs, pk).value.success_rate
       IN /\ total = 0 => rate = 0
          /\ total > 0 => /\ 2 * (rate * total - 10000 * sent) <= total
                          /\ 2 * (10000 * sent - rate * total) <= total
          /\ (sent = 7 /\ total = 10) => rate = 7000
          /\ 0 <= rate /\ rate <= 10000
          /\ shown = rate

\* The worked example, on a statistics page served from the cache:
\* 7 sent and 3 failed rows, the entry set by an earlier read.
C14_Witness ==
    \E pk \in DOMAIN mailings :
       /\ Cardinality({l \in LogsOf(pk) : l.status = "sent"}) = 7
       /\ Cardinality({l \in LogsOf(pk) : l.status = "failed"}) = 3
       /\ StatsKey(pk) \in DOMAIN cache
       /\ cache[StatsKey(pk)].success_rate = 7000

\* ---- SpecCache: the tables and the cache together ------------------------------

\* The limits a caller of get_cached_recent_logs passes besides the one of
\* MailingDetailView: the most recent row only, and the first limit past
\* the range the receivers invalidate.
ReadLimits == {1, InvalidatedLimitsEnd}

\* A caller of MailingLog.get_cached_recent_logs(mailing_id, limit).
RecentLogsRead(pk, limit) ==
    /\ pk \in DOMAIN mailings
    /\ cache' = GetCachedRecentLogs(cache, logs, pk, limit).cache
    /\ UNCHANGED <<now, mailings, next_mailing_id, rcpts, logs, next_log_id,
                   settings, next_settings_id, templates, next_message_id>>

\* The cache after MailingSendView.post: every MailingLog.objects.create
\* runs invalidate_logs_cache; after the loop the view deletes
\* mailing_{id}_stats and calls get_cached_stats, unless those calls raise.
CacheAfterSend(actor, pk, order, F, fin_err) ==
    LET res == SendResult(actor, pk, order, F, fin_err) IN
    IF res.kind \notin {"success", "error"} THEN cache
    ELSE IF fin_err THEN InvalidateLogsCache(cache, pk)
    ELSE GetCachedStats(CacheDelete(InvalidateLogsCache(cache, pk), {PlainStatsKey(pk)}),
                        res.logs, pk).cache

SendCached(actor, pk, order, F, fin_err) ==
    /\ Send(actor, pk, order, F, fin_err)
    /\ cache' = CacheAfterSend(actor, pk, order, F, fin_err)

\* A mailing of u1 to both recipients, just created: no attempt yet,
\* nothing cached.
InitCreated ==
    /\ now = 0
    /\ mailings = [p \in {1} |->
                     [owner |-> "u1", start_time |-> 0, end_time |-> 1,
                      recipients |-> RecipientIds, is_active |-> TRUE,
                      message_text |-> "typed"]]
    /\ next_mailing_id = 2
    /\ rcpts = RecipientIds
    /\ logs = {}
    /\ next_log_id = 1
    /\ settings = {[id |-> 1, mailing |-> 1, max_retries |-> DefaultMaxRetries,
                    retry_delay |-> DefaultRetryDelay]}
    /\ next_settings_id = 2
    /\ templates = <<>>
    /\ next_message_id = 1
    /\ cache = <<>>
    /\ reqs = <<>>
    /\ accounts = <<>>
    /\ next_user_id = 1
    /\ sessions = [c \in Clients |-> NoUser]

SendCachedStep ==
    \E actor \in Users, pk \in 1..MaxMailings :
       \E order \in SendOrders(pk), F \in SendFailures(pk), fin_err \in BOOLEAN :
          SendCached(actor, pk, order, F, fin_err) /\ UNCHANGED <<reqs, user_vars>>

RecentLogsStep ==
    \E pk \in 1..MaxMailings, limit \in ReadLimits :
       RecentLogsRead(pk, limit) /\ UNCHANGED <<reqs, user_vars>>

NextCache ==
    \/ SendCachedStep
    \/ DetailStep
    \/ StatsStep
    \/ RecentLogsStep
    \/ ExpireStep
    \/ TickStep

SpecCache == InitCreated /\ [][NextCache]_vars

\* C11: after any send, the next get_cached_stats returns counts that
\* include the attempts the send wrote, also when a statistics entry was
\* cached before the send: what get_cached_stats returns is the statistics
\* of the MailingLog table as it is.
C11_StatsIncludeNewAttempts ==
    \A pk \in DOMAIN mailings :
       GetCachedStats(cache, logs, pk).value = Stats(logs, pk)

\* C12: after a new attempt is recorded, the next get_cached_recent_logs
\* returns the most recent rows, newest first, the new one included, for
\* every value of limit: what it returns is the query on the MailingLog
\* table as it is.
C12_RecentLogsIncludeNewAttempt ==
    \A pk \in DOMAIN mailings :
       \A limit \in ReadLimits \cup {DetailLimit} :
          GetCachedRecentLogs(cache, logs, pk, limit).value = RecentLogs(logs, pk, limit)

\* ---- the delivery log under the views ------------------------------------------

\* C13: the delivery log is append-only under any sequence of user-facing
\* operations (send, toggle, mailing update, mailing delete, recipient
\* delete): a row that exists is still there, unmodified, after every step.
C13_LogAppendOnly == [][\A l \in logs : l \in logs']_vars

\* ---- errors outside the per-recipient handling ----------------------------------

\* C20: when a permitted send meets an error outside the per-recipient
\* handling (the calls after the loop raise, or the database stops taking
\* rows at the k-th recipient), the user gets the generic error report and
\* the rows written for the recipients processed before the error stay:
\* one new row for each of them, every earlier row kept, nothing taken back.
C20_ErrorKeepsWrittenRows ==
    \A actor \in Users, pk \in DOMAIN mailings :
       GateHolds(actor, pk) =>
          \A order \in SendOrders(pk), F \in SendFailures(pk) :
             /\ LET res == SendResult(actor, pk, order, F, TRUE)
                IN /\ res.kind = "error"
                   /\ logs \subseteq res.logs
                   /\ \A r \in mailings[pk].recipients :
                         Cardinality(RowsFor(res.logs \ logs, pk, r)) = 1
             /\ \A k \in 1..Len(order) :
                   LET res == SendAbortResult(actor, pk, order, F, k)
                   IN /\ res.kind = "error"
                      /\ logs \subseteq res.logs
                      /\ \A i \in 1..Len(order) :
                            Cardinality(RowsFor(res.logs \ logs, pk, order[i]))
                               = (IF i < k THEN 1 ELSE 0)

\* A send of a mailing to two recipients broke off after the first: one of
\* them has a row, the other has none, and the mailing can be sent again.
C20_Witness ==
    \E pk \in DOMAIN mailings :
       /\ mailings[pk].recipients = RecipientIds
       /\ \E r \in RecipientIds :
             /\ Cardinality(RowsFor(logs, pk, r)) = 1
             /\ \A q \in RecipientIds \ {r} : RowsFor(logs, pk, q) = {}
       /\ GateHolds(mailings[pk].owner, pk)

\* ---- SpecRetry: sends under edited MailingSettings ------------------------------

\* The values the admin may give max_retries and retry_delay.
MaxRetriesChoices == {0, DefaultMaxRetries}
RetryDelayChoices == {0, DefaultRetryDelay}

\* MailingSettingsAdmin / MailingSettingsInline: a staff user edits the
\* settings row of a mailing.
SettingsChange(pk, max_retries, retry_delay) ==
    /\ SettingsOf(pk) # {}
    /\ settings' = {IF s.mailing = pk
                    THEN [s EXCEPT !.max_retries = max_retries, !.retry_delay = retry_delay]
                    ELSE s : s \in settings}
    /\ UNCHANGED <<now, mailings, next_mailing_id, rcpts, logs, next_log_id,
                   next_settings_id, templates, next_message_id>>

SettingsStep ==
    \E pk \in 1..MaxMailings, mr \in MaxRetriesChoices, rd \in RetryDelayChoices :
       SettingsChange(pk, mr, rd) /\ UNCHANGED <<cache, reqs, user_vars>>

NextRetry ==
    \/ SendStep
    \/ SettingsStep
    \/ ToggleStep
    \/ TickStep

SpecRetry == InitCreated /\ [][NextRetry]_vars

\* C16: within one permitted send the transport is called exactly once for
\* each recipient, also for a recipient it fails for, whatever max_retries
\* and retry_delay the mailing's settings hold; a failed recipient gets its
\* one "failed" row and no further call.
C16_OneTransportCallPerRecipient ==
    \A actor \in Users, pk \in DOMAIN mailings :
       GateHolds(actor, pk) =>
          \A order \in SendOrders(pk), F \in SendFailures(pk), fin_err \in BOOLEAN :
             LET res == SendResult(actor, pk, order, F, fin_err)
             IN \A r \in mailings[pk].recipients :
                   /\ Cardinality({i \in DOMAIN res.mailed : res.mailed[i] = r}) = 1
                   /\ r \in F =>
                        \A l \in RowsFor(res.logs \ logs, pk, r) : l.status = "failed"

\* A send failed for r1 while the settings asked for retries: r1 has its
\* one "failed" row, and the mailing can be sent again under settings whose
\* max_retries is not zero.
C16_Witness ==
    \E pk \in DOMAIN mailings :
       /\ \E s \in SettingsOf(pk) : s.max_retries > 0 /\ s.retry_delay = 0
       /\ \E l \in RowsFor(logs, pk, "r1") : l.status = "failed"
       /\ Cardinality(RowsFor(logs, pk, "r1")) = 1
       /\ GateHolds(mailings[pk].owner, pk)

\* ---- SpecTemplates: the message views and the mailing form --------------------

MaxMessages == 2      \* Message rows ever created (auto-increment id)

\* The bodies a user may give a message.
Bodies == {"a", "b"}

\* MessageCreateView: any logged-in user; the row belongs to the user.
MessageCreate(actor, body, is_template) ==
    /\ next_message_id <= MaxMessages
    /\ templates' = [t \in DOMAIN templates \cup {next_message_id} |->
                       IF t = next_message_id
                       THEN [owner |-> actor, body |-> body, is_template |-> is_template]
                       ELSE templates[t]]
    /\ next_message_id' = next_message_id + 1
    /\ UNCHANGED <<now, mailings, next_mailing_id, rcpts, logs, next_log_id,
                   settings, next_settings_id>>

\* MessageUpdateView: only the owner passes OwnerRequiredMixin.
MessageUpdate(actor, t, body, is_template) ==
    /\ t \in DOMAIN templates
    /\ templates[t].owner = actor
    /\ templates' = [templates EXCEPT ![t] =
                       [owner |-> @.owner, body |-> body, is_template |-> is_template]]
    /\ UNCHANGED <<now, mailings, next_mailing_id, rcpts, logs, next_log_id,
                   settings, next_settings_id, next_message_id>>

\* MessageDeleteView: only the owner passes OwnerRequiredMixin. No table
\* refers to Message, so nothing goes with the row.
MessageDelete(actor, t) ==
    /\ t \in DOMAIN templates
    /\ templates[t].owner = actor
    /\ templates' = [u \in DOMAIN templates \ {t} |-> templates[u]]
    /\ UNCHANGED <<now, mailings, next_mailing_id, rcpts, logs, next_log_id,
                   settings, next_settings_id, next_message_id>>

MessageCreateStep ==
    \E actor \in Users, body \in Bodies, is_template \in BOOLEAN :
       MessageCreate(actor, body, is_template) /\ UNCHANGED <<cache, reqs, user_vars>>

MessageUpdateStep ==
    \E actor \in Users, t \in 1..MaxMessages, body \in Bodies, is_template \in BOOLEAN :
       MessageUpdate(actor, t, body, is_template) /\ UNCHANGED <<cache, reqs, user_vars>>

MessageDeleteStep ==
    \E actor \in Users, t \in 1..MaxMessages :
       MessageDelete(actor, t) /\ UNCHANGED <<cache, reqs, user_vars>>

NextTemplates ==
    \/ MessageCreateStep
    \/ MessageUpdateStep
    \/ MessageDeleteStep
    \/ CreateStep
    \/ UpdateStep
    \/ DeleteStep

SpecTemplates == Init /\ [][NextTemplates]_vars

\* C19: a mailing created from a template gets the template's body, as it
\* is at that moment, as its message_text; a later edit or deletion of the
\* template (any step that changes the Message table) leaves the
\* message_text of every mailing as it was.
C19_TemplateBodyCopied ==
    [][/\ \A actor \in Users, et \in EndTimes, rs \in SUBSET RecipientIds, text \in Texts :
             \A st \in {et - 1, et}, existing \in TemplateChoices(actor) :
                MailingCreate(actor, st, et, rs, text, existing) =>
                   mailings'[next_mailing_id].message_text = templates[existing].body
       /\ templates' # templates =>
             \A pk \in DOMAIN mailings :
                /\ pk \in DOMAIN mailings'
                /\ mailings'[pk].message_text = mailings[pk].message_text
      ]_vars

\* A mailing still carries the body of a template that was edited or
\* deleted since: no message has that body now.
C19_Witness ==
    \E pk \in DOMAIN mailings :
       /\ mailings[pk].message_text \in Bodies
       /\ \A t \in DOMAIN templates : templates[t].body # mailings[pk].message_text

\* ---- SpecConc: two send requests, statement by statement -----------------------

\* The requests in progress. Nothing in MailingSendView.post locks the
\* mailing or opens a transaction, so the statements of two requests
\* interleave freely; each database call is one step.
Requests == {"a", "b"}

\* The local variables of post(request, pk) before its first statement.
NewRequest(actor, pk) ==
    [pc |-> "load", actor |-> actor, pk |-> pk,
     mailing |-> [owner |-> "", is_active |-> FALSE, end_time |-> 0],
     todo |-> <<>>, mailed |-> <<>>, sent |-> 0, failed |-> 0, kind |-> ""]

\* The request returns with the message `kind`.
Return(i, kind) == [reqs EXCEPT ![i].pc = "done", ![i].kind = kind]

\* get_object_or_404 and the test of the user against the loaded row.
ReqLoad(i) ==
    /\ reqs[i].pc = "load"
    /\ reqs' =
         IF reqs[i].pk \notin DOMAIN mailings THEN Return(i, "not_found")
         ELSE LET m == mailings[reqs[i].pk] IN
              IF ~(m.owner = reqs[i].actor \/ IsManager(reqs[i].actor))
              THEN Return(i, "denied")
              ELSE [reqs EXCEPT ![i].pc = "count",
                                ![i].mailing = [owner |-> m.owner,
                                                is_active |-> m.is_active,
                                                end_time |-> m.end_time]]
    /\ UNCHANGED <<now, mailings, next_mailing_id, rcpts, logs, next_log_id,
                   settings, next_settings_id, templates, next_message_id, cache, user_vars>>

\* A variant of the list the loop walks: the recipients that have no row
\* of this mailing yet.
RecipientsNotYetSent(pk) ==
    IF pk \in DOMAIN mailings
    THEN {r \in mailings[pk].recipients : RowsFor(logs, pk, r) = {}}
    ELSE {}

\* mailing.recipients, a query on the table as it is when it runs.
RecipientsNow(pk) ==
    IF pk \in DOMAIN mailings THEN mailings[pk].recipients ELSE {}

\* mailing.recipients.count() == 0
ReqCount(i) ==
    /\ reqs[i].pc = "count"
    /\ reqs' = IF Cardinality(RecipientsNow(reqs[i].pk)) = 0
               THEN Return(i, "no_recipients")
               ELSE [reqs EXCEPT ![i].pc = "clock"]
    /\ UNCHANGED <<now, mailings, next_mailing_id, rcpts, logs, next_log_id,
                   settings, next_settings_id, templates, next_message_id, cache, user_vars>>

\* The is_active of the loaded row, then timezone.now() against its
\* end_time.
ReqClock(i) ==
    /\ reqs[i].pc = "clock"
    /\ reqs' = IF ~reqs[i].mailing.is_active THEN Return(i, "disabled")
               ELSE IF now > reqs[i].mailing.end_time THEN Return(i, "expired")
               ELSE [reqs EXCEPT ![i].pc = "fetch"]
    /\ UNCHANGED <<now, mailings, next_mailing_id, rcpts, logs, next_log_id,
                   settings, next_settings_id, templates, next_message_id, cache, user_vars>>

\* for recipient in mailing.recipients.all(): the query runs once, when
\* the loop starts.
ReqFetch(i) ==
    /\ reqs[i].pc = "fetch"
    /\ \E order \in Orders(RecipientsNow(reqs[i].pk)) :
          reqs' = [reqs EXCEPT ![i].todo = order,
                               ![i].pc = IF order = <<>> THEN "finish" ELSE "loop"]
    /\ UNCHANGED <<now, mailings, next_mailing_id, rcpts, logs, next_log_id,
                   settings, next_settings_id, templates, next_message_id, cache, user_vars>>

\* One turn of the loop: send_mail, which returns (ok) or raises, and the
\* row for it. When the recipient or the mailing has been deleted since
\* the loop started, send_mail is still called with the address the loop
\* holds, and MailingLog.objects.create raises for the missing row it
\* refers to, in the try and again in the inner except: the outer except
\* ends the request with the generic error.
ReqDeliver(i, ok) ==
    /\ reqs[i].pc = "loop"
    /\ next_log_id <= MaxLogs
    /\ IF Head(reqs[i].todo) \in rcpts /\ reqs[i].pk \in DOMAIN mailings
       THEN /\ logs' = logs \cup {LogRow(next_log_id, reqs[i].pk, Head(reqs[i].todo),
                                         IF ok THEN "sent" ELSE "failed")}
            /\ next_log_id' = next_log_id + 1
            /\ reqs' = [reqs EXCEPT
                          ![i].todo = Tail(@),
                          ![i].mailed = Append(@, Head(reqs[i].todo)),
                          ![i].sent = @ + (IF ok THEN 1 ELSE 0),
                          ![i].failed = @ + (IF ok THEN 0 ELSE 1),
                          ![i].pc = IF Tail(reqs[i].todo) = <<>> THEN "finish" ELSE "loop"]
       ELSE /\ UNCHANGED <<logs, next_log_id>>
            /\ reqs' = [reqs EXCEPT
                          ![i].mailed = Append(@, Head(reqs[i].todo)),
                          ![i].pc = "done",
                          ![i].kind = "error"]
    /\ UNCHANGED <<now, mailings, next_mailing_id, rcpts, settings, next_settings_id,
                   templates, next_message_id, cache, user_vars>>

\* The calls after the loop and the message: success, or the generic error
\* when one of the calls raises.
ReqFinish(i, fin_err) ==
    /\ reqs[i].pc = "finish"
    /\ reqs' = Return(i, IF fin_err THEN "error" ELSE "success")
    /\ UNCHANGED <<now, mailings, next_mailing_id, rcpts, logs, next_log_id,
                   settings, next_settings_id, templates, next_message_id, cache, user_vars>>

\* One mailing of u1, to one or both recipients, active or not, at any
\* time of the clock, and two requests to send it that have just arrived.
InitConc ==
    \E rs \in {{"r1"}, RecipientIds}, active \in BOOLEAN, t \in 0..MaxTime,
       a \in Users, b \in Users :
       /\ now = t
       /\ mailings = [p \in {1} |->
                        [owner |-> "u1", start_time |-> 0, end_time |-> 1,
                         recipients |-> rs, is_active |-> active,
                         message_text |-> "typed"]]
       /\ next_mailing_id = 2
       /\ rcpts = RecipientIds
       /\ logs = {}
       /\ next_log_id = 1
       /\ settings = {[id |-> 1, mailing |-> 1, max_retries |-> DefaultMaxRetries,
                       retry_delay |-> DefaultRetryDelay]}
       /\ next_settings_id = 2
       /\ templates = <<>>
       /\ next_message_id = 1
       /\ cache = <<>>
       /\ reqs = [i \in Requests |-> IF i = "a" THEN NewRequest(a, 1) ELSE NewRequest(b, 1)]
       /\ accounts = <<>>
       /\ next_user_id = 1
       /\ sessions = [c \in Clients |-> NoUser]

LoadStep == \E i \in Requests : ReqLoad(i)

CountStep == \E i \in Requests : ReqCount(i)

ClockStep == \E i \in Requests : ReqClock(i)

FetchStep == \E i \in Requests : ReqFetch(i)

DeliverStep == \E i \in Requests, ok \in BOOLEAN : ReqDeliver(i, ok)

FinishStep == \E i \in Requests, fin_err \in BOOLEAN : ReqFinish(i, fin_err)

NextConc ==
    \/ LoadStep
    \/ CountStep
    \/ ClockStep
    \/ FetchStep
    \/ DeliverStep
    \/ FinishStep

SpecConc == InitConc /\ [][NextConc]_vars

\* The requests that went through the loop.
Delivered == {i \in Requests : reqs[i].pc = "done" /\ reqs[i].kind \in {"success", "error"}}

\* C15: nothing protects a mailing against concurrent sends. Under every
\* interleaving of two requests to send the same mailing, a request is let
\* through exactly when the gate lets its user through, whatever the other
\* one does; each request that is let through walks the whole recipient
\* list; and when both are done the log holds, for each recipient, one new
\* row per request let through: 2n rows, two per recipient, for two
\* permitted sends of a mailing with n recipients.
C15_ConcurrentSendsBothRun ==
    /\ \A i \in Requests :
          reqs[i].pc = "done" =>
             /\ i \in Delivered <=> SendGate(reqs[i].actor, reqs[i].pk) = "permitted"
             /\ i \notin Delivered => reqs[i].kind = SendGate(reqs[i].actor, reqs[i].pk)
             /\ i \in Delivered =>
                   /\ Len(reqs[i].mailed) = Cardinality(mailings[reqs[i].pk].recipients)
                   /\ {reqs[i].mailed[k] : k \in DOMAIN reqs[i].mailed}
                         = mailings[reqs[i].pk].recipients
    /\ (\A i \in Requests : reqs[i].pc = "done") =>
          \A pk \in DOMAIN mailings :
             /\ \A r \in mailings[pk].recipients :
                   Cardinality(RowsFor(logs, pk, r))
                      = Cardinality({i \in Delivered : reqs[i].pk = pk})
             /\ Cardinality(LogsOf(pk))
                   = Cardinality({i \in Delivered : reqs[i].pk = pk})
                        * Cardinality(mailings[pk].recipients)

\* Both requests were let through and are done, and their loops ran
\* interleaved: the first two rows of the log are for the same recipient.
C15_Witness ==
    /\ Delivered = Requests
    /\ \E pk \in DOMAIN mailings :
          /\ mailings[pk].recipients = RecipientIds
          /\ Cardinality(LogsOf(pk)) = 4
          /\ \E l1, l2 \in LogsOf(pk) :
                l1.id = 1 /\ l2.id = 2 /\ l1.recipient = l2.recipient

\* ---- the gate, its reasons and the status ----------------------------------------

\* C21: every denial of a send has its own reason, and when several of the
\* conditions fail at once the reason is that of the first one in the
\* order: not owner and not manager, no recipients, inactive, expired.
C21_FirstViolatedReason ==
    \A actor \in Users, pk \in DOMAIN mailings :
       \A order \in SendOrders(pk), F \in SendFailures(pk), fin_err \in BOOLEAN :
          LET m    == mailings[pk]
              kind == SendResult(actor, pk, order, F, fin_err).kind
          IN /\ ~(m.owner = actor \/ IsManager(actor)) => kind = "denied"
             /\ (m.owner = actor \/ IsManager(actor)) =>
                   /\ m.recipients = {} => kind = "no_recipients"
                   /\ (m.recipients # {} /\ ~m.is_active) => kind = "disabled"
                   /\ (m.recipients # {} /\ m.is_active /\ now > m.end_time) =>
                         kind = "expired"
                   /\ (m.recipients # {} /\ m.is_active /\ ~(now > m.end_time)) =>
                         kind \in {"success", "error"}

\* An inactive mailing past its end_time that has recipients, and a user
\* who is neither its owner nor a manager: three conditions fail for that
\* user, two for the owner.
C21_Witness ==
    \E pk \in DOMAIN mailings :
       /\ ~mailings[pk].is_active
       /\ now > mailings[pk].end_time
       /\ mailings[pk].recipients # {}
       /\ \E actor \in Users : ~(mailings[pk].owner = actor \/ IsManager(actor))

\* C25 as stated: whenever a send is permitted the status is Created or
\* Running, and a mailing whose status is Disabled or Completed is denied
\* to its owner and to a manager with the "disabled" reason, respectively
\* the "expired" reason.
C25_GateAgreesWithStatus ==
    \A actor \in Users, pk \in DOMAIN mailings :
       (mailings[pk].owner = actor \/ IsManager(actor)) =>
          /\ SendGate(actor, pk) = "permitted" => Status(pk) \in {"Created", "Running"}
          /\ Status(pk) = "Disabled" => SendGate(actor, pk) = "disabled"
          /\ Status(pk) = "Completed" => SendGate(actor, pk) = "expired"

\* C25, amended: whenever a send is permitted the status is Created or
\* Running; a mailing whose status is Disabled or Completed is never
\* permitted, for any user; its owner or a manager is told "disabled",
\* respectively "expired", when the mailing has a recipient and "no
\* recipients" when it has none; and for an active mailing with attempts
\* and recipients the gate says "expired" exactly when the status is
\* Completed (the same boundary, now > end_time).
C25_GateAgreesWithStatusAmended ==
    \A actor \in Users, pk \in DOMAIN mailings :
       LET m == mailings[pk] IN
       /\ SendGate(actor, pk) = "permitted" => Status(pk) \in {"Created", "Running"}
       /\ Status(pk) \in {"Disabled", "Completed"} => SendGate(actor, pk) # "permitted"
       /\ (m.owner = actor \/ IsManager(actor)) =>
             /\ (Status(pk) = "Disabled" /\ m.recipients # {}) =>
                   SendGate(actor, pk) = "disabled"
             /\ (Status(pk) = "Completed" /\ m.recipients # {}) =>
                   SendGate(actor, pk) = "expired"
             /\ (Status(pk) \in {"Disabled", "Completed"} /\ m.recipients = {}) =>
                   SendGate(actor, pk) = "no_recipients"
             /\ (m.is_active /\ LogsOf(pk) # {} /\ m.recipients # {}) =>
                   (SendGate(actor, pk) = "expired" <=> Status(pk) = "Completed")

\* A mailing at its end_time that has attempts and recipients (still
\* Running, still permitted), and one past it that lost its recipients.
C25_Witness ==
    \E pk \in DOMAIN mailings :
       /\ mailings[pk].is_active
       /\ LogsOf(pk) # {}
       /\ \/ now = mailings[pk].end_time /\ mailings[pk].recipients # {}
          \/ now > mailings[pk].end_time /\ mailings[pk].recipients = {}

\* C27: once a mailing has an attempt its status is never Created again:
\* after every step of send, toggle, mailing update and recipient delete, a
\* mailing that had a row before the step is not Created after it.
C27_NeverCreatedAgain ==
    [][\A pk \in DOMAIN mailings :
          (pk \in DOMAIN mailings' /\ LogsOf(pk) # {}) => Status(pk)' # "Created"]_vars

\* C22: the is_active of an existing mailing changes only in a step a
\* manager or superuser takes (a toggle, or an update of a mailing of their
\* own); a toggle flips it and leaves every other field and the log as they
\* were, so that a second one restores it; a user who is neither cannot
\* toggle; and an update by an owner who is neither keeps the stored value
\* whatever the form carries.
C22_ActiveOnlyByManager ==
    [][\A pk \in DOMAIN mailings :
          /\ (pk \in DOMAIN mailings' /\ mailings'[pk].is_active # mailings[pk].is_active) =>
                \E actor \in Users :
                   /\ IsManager(actor) \/ IsSuperuser(actor)
                   /\ \/ ToggleActive(actor, pk)
                      \/ \E et \in EndTimes, rs \in SUBSET RecipientIds, text \in Texts :
                            \E st \in {et - 1, et},
                               existing \in TemplateChoices(actor) \cup {NoTemplate} :
                               MailingUpdate(actor, pk, st, et, rs,
                                             ~mailings[pk].is_active, text, existing)
          /\ \A actor \in Users :
                /\ ToggleActive(actor, pk) =>
                      /\ IsManager(actor) \/ IsSuperuser(actor)
                      /\ mailings' = [mailings EXCEPT ![pk].is_active = ~mailings[pk].is_active]
                      /\ [mailings' EXCEPT ![pk].is_active = ~mailings'[pk].is_active] = mailings
                      /\ logs' = logs
                /\ ~(IsManager(actor) \/ IsSuperuser(actor)) =>
                      \A et \in EndTimes, rs \in SUBSET RecipientIds, active \in BOOLEAN,
                         text \in Texts :
                         \A st \in {et - 1, et}, existing \in TemplateChoices(actor) \cup {NoTemplate} :
                            MailingUpdate(actor, pk, st, et, rs, active, text, existing) =>
                               mailings'[pk].is_active = mailings[pk].is_active
      ]_vars

\* A mailing of the plain user that is inactive (a manager or superuser
\* toggled it) and whose other fields were rewritten by its owner after an
\* attempt: the update kept the flag.
C22_Witness ==
    \E pk \in DOMAIN mailings :
       /\ ~mailings[pk].is_active
       /\ ~(IsManager(mailings[pk].owner) \/ IsSuperuser(mailings[pk].owner))
       /\ \E l \in LogsOf(pk) :
             l.recipient \in rcpts /\ l.recipient \notin mailings[pk].recipients

\* ---- the counts of the delivery log --------------------------------------------

\* MailingDetailView.get_context_data, the "pending_messages" entry:
\* total - sent - failed of the statistics get_cached_stats returns to the
\* owner, a manager or a superuser, and of three zeros to anyone else.
PendingMessages(actor, pk) ==
    IF mailings[pk].owner = actor \/ IsManager(actor) \/ IsSuperuser(actor)
    THEN LET stats == GetCachedStats(cache, logs, pk).value
         IN stats.total_count - stats.sent_count - stats.failed_count
    ELSE 0

\* C24: in every state reachable through sends the total of a mailing's
\* attempts is the number sent plus the number failed; no row carries
\* another status than "sent" or "failed", so no row is "pending"; and the
\* pending figure of the detail page is 0 for every user, from fresh and
\* from cached statistics alike.
C24_TotalIsSentPlusFailed ==
    /\ \A l \in logs : l.status \in {"sent", "failed"}
    /\ \A pk \in DOMAIN mailings :
          /\ TotalCount(logs, pk) = SentCount(logs, pk) + FailedCount(logs, pk)
          /\ \A actor \in Users : PendingMessages(actor, pk) = 0

\* A mailing with an attempt that failed and one that was sent, and its
\* statistics cached.
C24_Witness ==
    \E pk \in DOMAIN mailings :
       /\ SentCount(logs, pk) >= 1
       /\ FailedCount(logs, pk) >= 1
       /\ StatsKey(pk) \in DOMAIN cache
       /\ cache[StatsKey(pk)].total_count >= 2

\* ---- SpecViews: what the views show to whom -----------------------------------

\* MailingListView.get_queryset: the mailings on the list page.
MailingListShown(user) ==
    IF IsManager(user) \/ IsSuperuser(user)
    THEN DOMAIN mailings
    ELSE {pk \in DOMAIN mailings : mailings[pk].owner = user}

\* MailingDetailView: the page of mailing pk, found through
\* UserAccessMixin.get_queryset (a 404 otherwise, which shows nothing), with
\* the recent rows get_cached_recent_logs returns to the owner, a manager
\* or a superuser.
MailingDetailShown(user, pk) ==
    IF pk \notin Visible(user)
    THEN [mailings |-> {}, rows |-> {}]
    ELSE [mailings |-> {pk},
          rows |-> IF mailings[pk].owner = user \/ IsManager(user) \/ IsSuperuser(user)
                   THEN LET recent == GetCachedRecentLogs(cache, logs, pk, DetailLimit).value
                        IN {recent[i] : i \in 1..Len(recent)}
                   ELSE {}]

\* MailingStatsView.get_queryset: the mailings whose statistics are listed.
MailingStatsShown(user) ==
    IF IsManager(user) \/ IsSuperuser(user)
    THEN DOMAIN mailings
    ELSE {pk \in DOMAIN mailings : mailings[pk].owner = user}

\* request.GET.get("mailing_id") and request.GET.get("status") when the
\* parameter is absent or empty.
NoMailingId == 0
NoStatus == ""

\* A variant of MailingLogListView.get_queryset in which a mailing_id
\* parameter selects the rows of that mailing whoever owns it.
LogListShownByIdOnly(user, mailing_id, status) ==
    LET base == IF mailing_id # NoMailingId
                THEN {l \in logs : l.mailing = mailing_id}
                ELSE IF IsManager(user) \/ IsSuperuser(user) THEN logs
                ELSE {l \in logs : mailings[l.mailing].owner = user}
    IN IF status # NoStatus THEN {l \in base : l.status = status} ELSE base

\* MailingLogListView.get_queryset: the rows of the log list page for the
\* GET parameters mailing_id and status.
LogListShown(user, mailing_id, status) ==
    LET base   == IF IsManager(user) \/ IsSuperuser(user) THEN logs
                  ELSE {l \in logs : mailings[l.mailing].owner = user}
        byId   == IF mailing_id # NoMailingId
                  THEN IF IsManager(user) \/ IsSuperuser(user)
                       THEN {l \in base : l.mailing = mailing_id}
                       ELSE {l \in base : /\ l.mailing = mailing_id
                                          /\ mailings[l.mailing].owner = user}
                  ELSE base
    IN IF status # NoStatus THEN {l \in byId : l.status = status} ELSE byId

\* The values of the two GET parameters.
MailingIdParams == {NoMailingId} \cup (1..3)
StatusParams == {NoStatus, "sent", "failed"}

\* A mailing of the plain user to both recipients and one of the manager
\* to the first, both just created.
InitViews ==
    /\ now = 0
    /\ mailings = [p \in {1, 2} |->
                     [owner |-> IF p = 1 THEN "u1" ELSE "mgr",
                      start_time |-> 0, end_time |-> 1,
                      recipients |-> IF p = 1 THEN RecipientIds ELSE {"r1"},
                      is_active |-> TRUE, message_text |-> "typed"]]
    /\ next_mailing_id = 3
    /\ rcpts = RecipientIds
    /\ logs = {}
    /\ next_log_id = 1
    /\ settings = {[id |-> p, mailing |-> p, max_retries |-> DefaultMaxRetries,
                    retry_delay |-> DefaultRetryDelay] : p \in {1, 2}}
    /\ next_settings_id = 3
    /\ templates = <<>>
    /\ next_message_id = 1
    /\ cache = <<>>
    /\ reqs = <<>>
    /\ accounts = <<>>
    /\ next_user_id = 1
    /\ sessions = [c \in Clients |-> NoUser]

ViewSendStep ==
    \E actor \in Users, pk \in DOMAIN mailings :
       \E order \in SendOrders(pk), F \in SendFailures(pk), fin_err \in BOOLEAN :
          SendCached(actor, pk, order, F, fin_err) /\ UNCHANGED <<reqs, user_vars>>

ViewDetailStep ==
    \E actor \in Users, pk \in DOMAIN mailings : MailingDetail(actor, pk) /\ UNCHANGED <<reqs, user_vars>>

NextViews ==
    \/ ViewSendStep
    \/ ViewDetailStep
    \/ StatsStep
    \/ TickStep

SpecViews == InitViews /\ [][NextViews]_vars

\* C23: a user who is neither a manager nor a superuser is only ever shown
\* mailings that user owns and rows of mailings that user owns, on the
\* mailing list, the detail page, the statistics page and the log list,
\* whatever the parameters; the log list filtered by the id of a mailing
\* of another owner is empty.
C23_PlainUserSeesOwnOnly ==
    \A user \in Users :
       ~(IsManager(user) \/ IsSuperuser(user)) =>
          /\ \A pk \in MailingListShown(user) : mailings[pk].owner = user
          /\ \A pk \in MailingStatsShown(user) : mailings[pk].owner = user
          /\ \A pk \in MailingIdParams \ {NoMailingId} :
                /\ \A p \in MailingDetailShown(user, pk).mailings : mailings[p].owner = user
                /\ \A l \in MailingDetailShown(user, pk).rows :
                      l.mailing \in DOMAIN mailings /\ mailings[l.mailing].owner = user
          /\ \A mailing_id \in MailingIdParams, status \in StatusParams :
                /\ \A l \in LogListShown(user, mailing_id, status) :
                      mailings[l.mailing].owner = user
                /\ (mailing_id \in DOMAIN mailings /\ mailings[mailing_id].owner # user)
                      => LogListShown(user, mailing_id, status) = {}

\* The manager's mailing and the plain user's both have rows, the recent
\* rows of the manager's are cached, and the plain user's log list is not
\* empty.
C23_Witness ==
    /\ \E l \in logs : mailings[l.mailing].owner = "mgr"
    /\ LogListShown("u1", NoMailingId, NoStatus) # {}
    /\ LogListShown("u1", 2, NoStatus) = {}
    /\ RecentLogsKey(2, DetailLimit) \in DOMAIN cache
    /\ Len(cache[RecentLogsKey(2, DetailLimit)]) >= 1

\* ---- SpecRace: a send in progress against the other views -----------------------

\* The requests to send of SpecConc, taken statement by statement, with
\* the manager's toggle, the deletion of a recipient and the clock running
\* between their statements.
NextRace ==
    \/ LoadStep
    \/ CountStep
    \/ ClockStep
    \/ FetchStep
    \/ DeliverStep
    \/ FinishStep
    \/ ToggleStep
    \/ RecipientDeleteStep
    \/ TickStep

SpecRace == InitConc /\ [][NextRace]_vars

\* C26: no transport call is made for a mailing and no row is appended to
\* it at a moment when its stored is_active is false or the time is after
\* its end_time, under every interleaving of a running send with the
\* manager's toggle and the passage of time.
C26_NoAttemptWhileDisabledOrExpired ==
    [][/\ \A i \in Requests :
             reqs'[i].mailed # reqs[i].mailed =>
                /\ reqs[i].pk \in DOMAIN mailings
                /\ mailings[reqs[i].pk].is_active
                /\ ~(now > mailings[reqs[i].pk].end_time)
       /\ \A l \in logs' \ logs :
             /\ mailings[l.mailing].is_active
             /\ ~(now > mailings[l.mailing].end_time)]_vars

\* C28: every send that passed the gate and reports success has written at
\* least one row, also when a recipient is removed between the recipient
\* count of the gate and the loop.
C28_SuccessWroteARow ==
    \A i \in Requests :
       (reqs[i].pc = "done" /\ reqs[i].kind = "success") =>
          reqs[i].sent + reqs[i].failed >= 1

\* ---- SpecUsers: registration, verification, login and blocking -----------------

MaxUsers == 2       \* users ever registered (auto-increment pk)

\* The values uuid.uuid4 may give to a verification_token, and the token
\* segments a verification link may carry.
Tokens == {"t1", "t2"}

\* urlsafe_base64_encode(force_bytes(user.pk)): the uid segment of the
\* link, the base64 of the decimal digits of the pk without its padding.
UidB64(pk) ==
    CASE pk = 1 -> "MQ"
      [] pk = 2 -> "Mg"
      [] pk = 3 -> "Mw"
      [] pk = 4 -> "NA"

\* The uid segments a request may carry: those of the first four pks and
\* one that is not base64.
Uidb64s == {"MQ", "Mg", "Mw", "NA", "x"}

\* force_str(urlsafe_base64_decode(uidb64)) and User.objects.get(pk=uid)
\* against the table `table`: the pk of the user found, NoUser when the
\* segment does not decode or no user has that pk.
UserOfUid(table, uidb64) ==
    LET decoded == {pk \in 1..4 : UidB64(pk) = uidb64} IN
    IF decoded = {} THEN NoUser
    ELSE LET uid == CHOOSE pk \in decoded : TRUE
         IN IF uid \in DOMAIN table THEN uid ELSE NoUser

\* login(request, user): the browser's session becomes that user's.
LoginSession(s, client, user) == [s EXCEPT ![client] = user]

\* RegisterView.form_valid: the form saves the new user, the view sets
\* is_active to False and saves again; email_verified and is_blocked keep
\* their defaults and verification_token is a fresh uuid4.
Register(token) ==
    /\ next_user_id <= MaxUsers
    /\ accounts' = [u \in DOMAIN accounts \cup {next_user_id} |->
                      IF u = next_user_id
                      THEN [is_active |-> FALSE, email_verified |-> FALSE,
                            verification_token |-> token, is_blocked |-> FALSE]
                      ELSE accounts[u]]
    /\ next_user_id' = next_user_id + 1
    /\ UNCHANGED sessions

\* A variant of verify_email that accepts any token for a user that
\* exists.
VerifyEmailAnyToken(client, uidb64, token) ==
    LET user == UserOfUid(accounts, uidb64) IN
    IF user # NoUser
    THEN [valid |-> TRUE,
          accounts |-> [accounts EXCEPT ![user].email_verified = TRUE,
                                        ![user].is_active = TRUE],
          sessions |-> LoginSession(sessions, client, user)]
    ELSE [valid |-> FALSE, accounts |-> accounts, sessions |-> sessions]

\* verify_email(request, uidb64, token): the tables and the sessions it
\* leaves, and whether it took the link as valid.
VerifyEmailResult(client, uidb64, token) ==
    LET user == UserOfUid(accounts, uidb64) IN
    IF user # NoUser /\ accounts[user].verification_token = token
    THEN [valid |-> TRUE,
          accounts |-> [accounts EXCEPT ![user].email_verified = TRUE,
                                        ![user].is_active = TRUE],
          sessions |-> LoginSession(sessions, client, user)]
    ELSE [valid |-> FALSE, accounts |-> accounts, sessions |-> sessions]

VerifyEmail(client, uidb64, token) ==
    /\ accounts' = VerifyEmailResult(client, uidb64, token).accounts
    /\ sessions' = VerifyEmailResult(client, uidb64, token).sessions
    /\ UNCHANGED next_user_id

\* EmailAuthenticationForm.clean and CustomLoginView.form_valid for the
\* email of user `user`: authenticate gives the user when the password is
\* right and is_active is set; form_valid then refuses a user who is not
\* verified or who is blocked, and logs the others in.
LoginResult(client, user, password_ok) ==
    IF /\ user \in DOMAIN accounts
       /\ password_ok
       /\ accounts[user].is_active
       /\ accounts[user].email_verified
       /\ ~accounts[user].is_blocked
    THEN LoginSession(sessions, client, user)
    ELSE sessions

Login(client, user, password_ok) ==
    /\ sessions' = LoginResult(client, user, password_ok)
    /\ UNCHANGED <<accounts, next_user_id>>

\* custom_logout
Logout(client) ==
    /\ sessions' = [sessions EXCEPT ![client] = NoUser]
    /\ UNCHANGED <<accounts, next_user_id>>

\* UserBlockToggleView.post for a member of Managers.
UserBlockToggle(actor, user) ==
    /\ IsManager(actor)
    /\ user \in DOMAIN accounts
    /\ accounts' = [accounts EXCEPT ![user].is_blocked = ~accounts[user].is_blocked]
    /\ UNCHANGED <<next_user_id, sessions>>

RegisterStep ==
    \E token \in Tokens :
       /\ Register(token)
       /\ UNCHANGED <<now, mailings, next_mailing_id, rcpts, logs, next_log_id,
                      settings, next_settings_id, templates, next_message_id,
                      cache, reqs>>

VerifyStep ==
    \E client \in Clients, uidb64 \in Uidb64s, token \in Tokens :
       /\ VerifyEmail(client, uidb64, token)
       /\ UNCHANGED <<now, mailings, next_mailing_id, rcpts, logs, next_log_id,
                      settings, next_settings_id, templates, next_message_id,
                      cache, reqs>>

LoginStep ==
    \E client \in Clients, user \in 1..(MaxUsers + 1), password_ok \in BOOLEAN :
       /\ Login(client, user, password_ok)
       /\ UNCHANGED <<now, mailings, next_mailing_id, rcpts, logs, next_log_id,
                      settings, next_settings_id, templates, next_message_id,
                      cache, reqs>>

LogoutStep ==
    \E client \in Clients :
       /\ Logout(client)
       /\ UNCHANGED <<now, mailings, next_mailing_id, rcpts, logs, next_log_id,
                      settings, next_settings_id, templates, next_message_id,
                      cache, reqs>>

BlockToggleStep ==
    \E actor \in Users, user \in 1..(MaxUsers + 1) :
       /\ UserBlockToggle(actor, user)
       /\ UNCHANGED <<now, mailings, next_mailing_id, rcpts, logs, next_log_id,
                      settings, next_settings_id, templates, next_message_id,
                      cache, reqs>>

NextUsers ==
    \/ RegisterStep
    \/ VerifyStep
    \/ LoginStep
    \/ LogoutStep
    \/ BlockToggleStep

SpecUsers == Init /\ [][NextUsers]_vars

\* C29: no operation establishes a session for a user whose is_blocked is
\* true: in no step of register, verify, block toggle, login and logout
\* does a browser become logged in as a user who is blocked.
C29_NoSessionForBlockedUser ==
    [][\A client \in Clients :
          (sessions'[client] # NoUser /\ sessions'[client] # sessions[client])
             => ~accounts'[sessions'[client]].is_blocked]_vars

\* C30: a registered user is inactive and unverified until verify_email is
\* called with the uid of that user and that user's verification_token: a
\* new row has both flags false, and a step that changes either flag of a
\* user is such a call. A call with another token or with the uid of no
\* user changes no row and logs nobody in, and the login view logs in no
\* user whose email_verified is false.
C30_UnverifiedUntilVerifyEmail ==
    /\ [](/\ \A client \in Clients, uidb64 \in Uidb64s, token \in Tokens :
               ~(/\ UserOfUid(accounts, uidb64) # NoUser
                 /\ accounts[UserOfUid(accounts, uidb64)].verification_token = token)
                  => /\ VerifyEmailResult(client, uidb64, token).accounts = accounts
                     /\ VerifyEmailResult(client, uidb64, token).sessions = sessions
          /\ \A client \in Clients, user \in 1..(MaxUsers + 1), password_ok \in BOOLEAN :
               (user \in DOMAIN accounts /\ ~accounts[user].email_verified)
                  => LoginResult(client, user, password_ok) = sessions)
    /\ [][/\ \A user \in DOMAIN accounts' \ DOMAIN accounts :
                ~accounts'[user].is_active /\ ~accounts'[user].email_verified
          /\ \A user \in DOMAIN accounts :
                (\/ accounts'[user].is_active # accounts[user].is_active
                 \/ accounts'[user].email_verified # accounts[user].email_verified)
                   => /\ ~accounts[user].is_active /\ ~accounts[user].email_verified
                      /\ \E client \in Clients :
                            VerifyEmail(client, UidB64(user),
                                        accounts[user].verification_token)]_vars

\* The first user has verified and is logged in; the second, whose token
\* is another one, has registered and is still inactive and unverified,
\* so a link with the second uid and the first token is refused.
C30_Witness ==
    /\ DOMAIN accounts = {1, 2}
    /\ accounts[1].email_verified /\ accounts[1].is_active
    /\ \E client \in Clients : sessions[client] = 1
    /\ ~accounts[2].email_verified /\ ~accounts[2].is_active
    /\ accounts[2].verification_token # accounts[1].verification_token
    /\ \A client \in Clients :
          ~VerifyEmailResult(client, UidB64(2), accounts[1].verification_token).valid

====
